---- MODULE Spec2Model ----
(***************************************************************************)
(* Floor-plan layout engine: the occupancy grid and the three-stage ilot   *)
(* placer of client/src/utils/ilotPlacement.ts and the corridor generator  *)
(* of src/utils/corridorGenerator.ts.                                      *)
(*                                                                         *)
(* Numbers.  The code computes in floating-point metres.  The model uses   *)
(* fixed-point millimetres (1 m = 1000).  An area or a tier "size" s (in   *)
(* m^2) is kept in thousandths (6.0 -> 6000); Math.sqrt is the integer     *)
(* square root, x / 2 is x \div 2, and a comparison of a Euclidean         *)
(* distance with a bound is made on the squares, which is exact.           *)
(* Math.random() is a nondeterministic choice from a finite set of draws.  *)
(***************************************************************************)
EXTENDS Integers, Sequences, FiniteSets, TLC

VARIABLES
    floorPlan,      \* this.floorPlan
    config,         \* this.config
    placementGrid,  \* this.placementGrid[y][x]
    pc,             \* position of placeIlots: which stage / pass runs next
    zones,          \* primaryPlacementStage: availableZones
    zoneIdx,        \* primaryPlacementStage: index of the zone in the for loop
    hexPos,         \* hexagonalGridPlacement: loop variables row, x, y
    attempt,        \* loop counter of the pass that is running
    generation,     \* optimizationStage: generation
    stageIlots,     \* primaryPlacementStage: placedIlots (all zones so far)
    zoneIlots,      \* placeIlotsInZoneAdvanced: placedIlots of the current zone
    bestLayout,     \* optimizationStage: bestLayout
    baseLayout,     \* generateLayoutCandidates: baseLayout of this generation
    result,         \* what placeIlots returned
    firstRun,       \* history: outcome of the previous run on the same input
    corridors,      \* what generateCorridors returned
    file,           \* processFloorPlan: the file argument
    proc,           \* AdvancedFloorPlanProcessor: onProgressUpdate, position of processFloorPlan
    reference,      \* history: the finished call without a callback on the same file
    ui,             \* FloorPlanProcessor: currentStage, floorPlan, isProcessing
    storage         \* MemStorage: floorPlans, currentFloorPlanId; history: ids returned

\* the state of the placer and of the corridor generator
placeVars ==
    << floorPlan, config, placementGrid, pc, zones, zoneIdx, hexPos,
           attempt, generation, stageIlots, zoneIlots, bestLayout, baseLayout,
           result, firstRun, corridors >>

\* the state of the processing pipeline, of the component and of the server
appVars == << file, proc, reference, ui, storage >>

vars ==
    << floorPlan, config, placementGrid, pc, zones, zoneIdx, hexPos,
           attempt, generation, stageIlots, zoneIlots, bestLayout, baseLayout,
           result, firstRun, corridors,
       file, proc, reference, ui, storage >>

-----------------------------------------------------------------------------
(* Arithmetic *)

Max(a, b) == IF a >= b THEN a ELSE b
Min(a, b) == IF a <= b THEN a ELSE b
Abs(a) == IF a < 0 THEN -a ELSE a

\* Math.floor(a / b) and Math.ceil(a / b) for b > 0
FloorDiv(a, b) == a \div b
CeilDiv(a, b) == -((-a) \div b)

RECURSIVE SqrtSearch(_, _, _)
SqrtSearch(n, lo, hi) ==
    IF lo >= hi THEN lo
    ELSE LET mid == (lo + hi + 1) \div 2
         IN  IF mid * mid <= n THEN SqrtSearch(n, mid, hi)
             ELSE SqrtSearch(n, lo, mid - 1)

\* Math.sqrt, truncated to the unit
Sqrt(n) == IF n <= 0 THEN 0 ELSE SqrtSearch(n, 0, Min(n, 46340))

Pt(x, y) == [x |-> x, y |-> y]

\* getDistance squared
DistSq(p1, p2) == (p2.x - p1.x) * (p2.x - p1.x) + (p2.y - p1.y) * (p2.y - p1.y)

\* getDistance
getDistance(p1, p2) == Sqrt(DistSq(p1, p2))

RECURSIVE SumSeq(_)
SumSeq(s) == IF s = << >> THEN 0 ELSE Head(s) + SumSeq(Tail(s))

SeqMin(s) == CHOOSE m \in {s[i] : i \in 1..Len(s)} : \A i \in 1..Len(s) : m <= s[i]
SeqMax(s) == CHOOSE m \in {s[i] : i \in 1..Len(s)} : \A i \in 1..Len(s) : m >= s[i]

-----------------------------------------------------------------------------
(* Geometry kernel *)

\* isPointInPolygon: even-odd ray casting.  The crossing test
\*   point.x < (xj - xi) * (point.y - yi) / (yj - yi) + xi
\* is made without the division, by the sign of yj - yi.
EdgeCrossed(point, pi, pj) ==
    /\ (pi.y > point.y) # (pj.y > point.y)
    /\ LET dy  == pj.y - pi.y
           lhs == (point.x - pi.x) * dy
           rhs == (pj.x - pi.x) * (point.y - pi.y)
       IN  IF dy > 0 THEN lhs < rhs ELSE lhs > rhs

isPointInPolygon(point, polygon) ==
    LET n == Len(polygon)
        crossings == { i \in 1..n :
                         EdgeCrossed(point, polygon[i],
                                     polygon[IF i = 1 THEN n ELSE i - 1]) }
    IN  Cardinality(crossings) % 2 = 1

\* calculateZoneBounds
calculateZoneBounds(boundaries) ==
    LET xs == [i \in 1..Len(boundaries) |-> boundaries[i].x]
        ys == [i \in 1..Len(boundaries) |-> boundaries[i].y]
    IN  [minX |-> SeqMin(xs), maxX |-> SeqMax(xs),
         minY |-> SeqMin(ys), maxY |-> SeqMax(ys),
         width |-> SeqMax(xs) - SeqMin(xs),
         height |-> SeqMax(ys) - SeqMin(ys)]

-----------------------------------------------------------------------------
(* Occupancy grid *)

gridResolution == 200

GridHeight(g) == Cardinality(DOMAIN g)
GridWidth(g) == Cardinality(DOMAIN g[0])

\* worldToGrid
worldToGrid(fp, g, bounds) ==
    [minX |-> Max(0, FloorDiv(bounds.minX - fp.bounds.minX, gridResolution)),
     maxX |-> Min(GridWidth(g) - 1,
                  FloorDiv(bounds.maxX - fp.bounds.minX, gridResolution)),
     minY |-> Max(0, FloorDiv(bounds.minY - fp.bounds.minY, gridResolution)),
     maxY |-> Min(GridHeight(g) - 1,
                  FloorDiv(bounds.maxY - fp.bounds.minY, gridResolution))]

\* gridToWorld
gridToWorld(fp, gx, gy) ==
    Pt(fp.bounds.minX + gx * gridResolution, fp.bounds.minY + gy * gridResolution)

\* setGridValue: the value of cell (x, y) after the call
setGridValue(g, x, y, value) ==
    IF y >= 0 /\ y < GridHeight(g) /\ x >= 0 /\ x < GridWidth(g)
    THEN value ELSE g[y][x]

\* getGridValue
getGridValue(g, x, y) ==
    IF y >= 0 /\ y < GridHeight(g) /\ x >= 0 /\ x < GridWidth(g)
    THEN g[y][x] ELSE -1

\* isGridPositionAvailable
isGridPositionAvailable(fp, g, position) ==
    LET gridPos == worldToGrid(fp, g, [minX |-> position.x, maxX |-> position.x,
                                       minY |-> position.y, maxY |-> position.y])
    IN  getGridValue(g, gridPos.minX, gridPos.minY) = 0

\* markPolygonOnGrid
markPolygonOnGrid(fp, g, polygon, value) ==
    LET gb == worldToGrid(fp, g, calculateZoneBounds(polygon))
    IN  [y \in DOMAIN g |-> [x \in DOMAIN g[y] |->
            IF /\ gb.minY <= y /\ y <= gb.maxY
               /\ gb.minX <= x /\ x <= gb.maxX
               /\ isPointInPolygon(gridToWorld(fp, x, y), polygon)
            THEN setGridValue(g, x, y, value)
            ELSE g[y][x]]]

\* markRectangleOnGrid
markRectangleOnGrid(fp, g, center, width, height, value) ==
    LET halfWidth == width \div 2
        halfHeight == height \div 2
        corners == << Pt(center.x - halfWidth, center.y - halfHeight),
                      Pt(center.x + halfWidth, center.y - halfHeight),
                      Pt(center.x + halfWidth, center.y + halfHeight),
                      Pt(center.x - halfWidth, center.y + halfHeight) >>
    IN  markPolygonOnGrid(fp, g, corners, value)

\* markCircleOnGrid
markCircleOnGrid(fp, g, center, radius, value) ==
    LET gb == worldToGrid(fp, g, [minX |-> center.x - radius, maxX |-> center.x + radius,
                                  minY |-> center.y - radius, maxY |-> center.y + radius])
    IN  [y \in DOMAIN g |-> [x \in DOMAIN g[y] |->
            IF /\ gb.minY <= y /\ y <= gb.maxY
               /\ gb.minX <= x /\ x <= gb.maxX
               /\ DistSq(gridToWorld(fp, x, y), center) <= radius * radius
            THEN setGridValue(g, x, y, value)
            ELSE g[y][x]]]

\* markWallBufferOnGrid
markWallBufferOnGrid(fp, g, wall, bufferDistance) ==
    LET dx == wall.end.x - wall.start.x
        dy == wall.end.y - wall.start.y
        length == Sqrt(dx * dx + dy * dy)
    IN  IF length = 0 THEN g   \* NaN normal: the loops do not run
        ELSE
        LET nx == ((0 - dy) * bufferDistance) \div length
            ny == (dx * bufferDistance) \div length
            bufferPolygon ==
                << Pt(wall.start.x + nx, wall.start.y + ny),
                   Pt(wall.end.x + nx, wall.end.y + ny),
                   Pt(wall.end.x - nx, wall.end.y - ny),
                   Pt(wall.start.x - nx, wall.start.y - ny) >>
        IN  markPolygonOnGrid(fp, g, bufferPolygon, -1)

WallBuffer == 300
EntranceClearance == 2500

RECURSIVE markRestrictedAreas(_, _, _)
markRestrictedAreas(fp, g, i) ==
    IF i > Len(fp.restrictedAreas) THEN g
    ELSE markRestrictedAreas(fp,
            markPolygonOnGrid(fp, g, fp.restrictedAreas[i].boundaries, -1), i + 1)

RECURSIVE markWallBuffers(_, _, _)
markWallBuffers(fp, g, i) ==
    IF i > Len(fp.walls) THEN g
    ELSE markWallBuffers(fp, markWallBufferOnGrid(fp, g, fp.walls[i], WallBuffer), i + 1)

RECURSIVE markEntranceBuffers(_, _, _)
markEntranceBuffers(fp, g, i) ==
    IF i > Len(fp.entrances) THEN g
    ELSE markEntranceBuffers(fp,
            markCircleOnGrid(fp, g, fp.entrances[i].position, EntranceClearance, -1), i + 1)

\* initializeGrid with the entrance clearances marked only on request
initializeGridOnRequest(fp) ==
    LET width == CeilDiv(fp.bounds.maxX - fp.bounds.minX, gridResolution)
        height == CeilDiv(fp.bounds.maxY - fp.bounds.minY, gridResolution)
        empty == [y \in 0..(height - 1) |-> [x \in 0..(width - 1) |-> 0]]
        walled == markWallBuffers(fp, markRestrictedAreas(fp, empty, 1), 1)
    IN  IF config.respectEntranceClearance
        THEN markEntranceBuffers(fp, walled, 1)
        ELSE walled

\* initializeGrid
initializeGrid(fp) ==
    LET width == CeilDiv(fp.bounds.maxX - fp.bounds.minX, gridResolution)
        height == CeilDiv(fp.bounds.maxY - fp.bounds.minY, gridResolution)
        empty == [y \in 0..(height - 1) |-> [x \in 0..(width - 1) |-> 0]]
    IN  markEntranceBuffers(fp,
            markWallBuffers(fp,
                markRestrictedAreas(fp, empty, 1), 1), 1)

\* clearGridOccupancy
clearGridOccupancy(g) ==
    [y \in DOMAIN g |-> [x \in DOMAIN g[y] |-> IF g[y][x] = 1 THEN 0 ELSE g[y][x]]]

-----------------------------------------------------------------------------
(* Ilots *)

\* generateDynamicIlotSizes: size in thousandths of m^2, weight in hundredths
generateDynamicIlotSizes(cfg) ==
    << [size |-> 6000, weight |-> IF cfg.layoutProfile > 30 THEN 40 ELSE 20, type |-> "large"],
       [size |-> 4500, weight |-> 35, type |-> "medium-large"],
       [size |-> 3000, weight |-> 25, type |-> "medium"],
       [size |-> 2000, weight |-> IF cfg.layoutProfile > 25 THEN 15 ELSE 30, type |-> "small-medium"],
       [size |-> 1500, weight |-> 10, type |-> "small"],
       [size |-> 1000, weight |-> 5, type |-> "micro"] >>

\* createIlot: width = height = Math.sqrt(config.size); the id is
\* `ilot_${Date.now()}_${Math.random()...}`, here the draw `id`
createIlot(position, sizeConfig, id) ==
    LET size == Sqrt(sizeConfig.size * 1000)
    IN  [id |-> id, position |-> position, width |-> size, height |-> size,
         area |-> sizeConfig.size, rotation |-> 0, type |-> sizeConfig.type,
         isPlaced |-> TRUE]

\* canPlaceIlotAt: `size` is used as a side length (halfSize = size / 2)
CornersOf(position, halfSize) ==
    << Pt(position.x - halfSize, position.y - halfSize),
       Pt(position.x + halfSize, position.y - halfSize),
       Pt(position.x + halfSize, position.y + halfSize),
       Pt(position.x - halfSize, position.y + halfSize) >>

\* distance < halfSize + Math.max(existing.width, existing.height) / 2 + minIlotSpacing
TooClose(cfg, position, size, existing) ==
    LET minDistance2 == size + Max(existing.width, existing.height)
                             + 2 * cfg.minIlotSpacing
    IN  minDistance2 > 0
        /\ 4 * DistSq(position, existing.position) < minDistance2 * minDistance2

canPlaceIlotAt(fp, g, cfg, position, size, existingIlots) ==
    LET corners == CornersOf(position, size \div 2)
    IN  /\ \A c \in 1..4 : isGridPositionAvailable(fp, g, corners[c])
        /\ \A e \in 1..Len(existingIlots) :
               ~TooClose(cfg, position, size, existingIlots[e])

\* markIlotOnGrid
markIlotOnGrid(fp, g, ilot) ==
    markRectangleOnGrid(fp, g, ilot.position, ilot.width, ilot.height, 1)

\* markIlotsOnGrid
RECURSIVE markIlotsOnGrid(_, _, _)
markIlotsOnGrid(fp, g, ilots) ==
    IF ilots = << >> THEN g
    ELSE markIlotsOnGrid(fp, markIlotOnGrid(fp, g, Head(ilots)), Tail(ilots))

\* isPositionInZone
isPositionInZone(position, zone) == isPointInPolygon(position, zone.boundaries)

\* isValidPosition
isValidPosition(fp, g, cfg, position, ilot, otherIlots) ==
    /\ \E r \in 1..Len(fp.rooms) :
          fp.rooms[r].type = "available" /\ isPositionInZone(position, fp.rooms[r])
    /\ canPlaceIlotAt(fp, g, cfg, position, Max(ilot.width, ilot.height), otherIlots)

\* calculateLocalAvailableSpace: sizes 0.5, 1.0, ... 4.0, stopping at the
\* first that does not fit
RECURSIVE LocalSpaceFrom(_, _, _, _, _, _)
LocalSpaceFrom(fp, g, cfg, position, size, maxSpace) ==
    IF size > 4000 THEN maxSpace
    ELSE IF canPlaceIlotAt(fp, g, cfg, position, size, << >>)
         THEN LocalSpaceFrom(fp, g, cfg, position, size + 500, size)
         ELSE maxSpace

calculateLocalAvailableSpace(fp, g, cfg, position) ==
    LocalSpaceFrom(fp, g, cfg, position, 500, 0)

\* filter of a sequence
RECURSIVE SelectSeqBy(_, _)
SelectSeqBy(s, keep) ==
    IF s = << >> THEN << >>
    ELSE IF Head(s) \in keep THEN << Head(s) >> \o SelectSeqBy(Tail(s), keep)
         ELSE SelectSeqBy(Tail(s), keep)

Range(s) == { s[i] : i \in 1..Len(s) }

\* selectOptimalIlotForPosition: the sizes that fit and respect maxIlotSize
SuitableSizes(fp, g, cfg, position, ilotSizes) ==
    LET availableSpace == calculateLocalAvailableSpace(fp, g, cfg, position)
    IN  SelectSeqBy(ilotSizes,
            { s \in Range(ilotSizes) :
                s.size <= availableSpace /\ s.size <= cfg.maxIlotSize })

TotalWeight(sizes) == SumSeq([i \in 1..Len(sizes) |-> sizes[i].weight])

\* the weighted draw: random -= weight; first size with random <= 0, else the first
RECURSIVE WeightedPick(_, _, _)
WeightedPick(sizes, i, random) ==
    IF i > Len(sizes) THEN sizes[1]
    ELSE IF random - sizes[i].weight <= 0 THEN sizes[i]
         ELSE WeightedPick(sizes, i + 1, random - sizes[i].weight)

\* calculateUtilization, in hundredths of a percent
calculateUtilization(fp, ilots) ==
    (SumSeq([i \in 1..Len(ilots) |-> ilots[i].area]) * 10000) \div fp.availableArea

\* sequence without its i-th element: layout.filter((_, idx) => idx !== i)
Without(s, i) == SubSeq(s, 1, i - 1) \o SubSeq(s, i + 1, Len(s))

-----------------------------------------------------------------------------
(* Layout score.  Scores are in units of 1/10000 point. *)

\* pointIntersectsIlot
pointIntersectsIlot(point, ilot) ==
    LET halfWidth == ilot.width \div 2
        halfHeight == ilot.height \div 2
    IN  /\ point.x >= ilot.position.x - halfWidth
        /\ point.x <= ilot.position.x + halfWidth
        /\ point.y >= ilot.position.y - halfHeight
        /\ point.y <= ilot.position.y + halfHeight

PathSteps == 20

\* hasLingeringPath: the sample points i = 1 .. steps - 1
hasLingeringPath(start, end, obstacles) ==
    \A i \in 1..(PathSteps - 1) :
        LET point == Pt(start.x + ((end.x - start.x) * i) \div PathSteps,
                        start.y + ((end.y - start.y) * i) \div PathSteps)
        IN  \A o \in 1..Len(obstacles) : ~pointIntersectsIlot(point, obstacles[o])

\* isIlotAccessible
isIlotAccessible(fp, ilot, allIlots) ==
    \E e \in 1..Len(fp.entrances) :
        hasLingeringPath(ilot.position, fp.entrances[e].position, allIlots)

\* calculateAccessibilityScore * 0.2   (ilots non-empty)
AccessibilityTerm(fp, ilots) ==
    LET accessibleCount ==
            Cardinality({ i \in 1..Len(ilots) : isIlotAccessible(fp, ilots[i], ilots) })
    IN  (accessibleCount * 200000) \div Len(ilots)

\* calculateDistributionScore * 0.3
DistributionTerm(ilots) ==
    IF Len(ilots) < 2 THEN 0
    ELSE LET pairs == { p \in (1..Len(ilots)) \X (1..Len(ilots)) : p[1] < p[2] }
             dists == [p \in pairs |-> getDistance(ilots[p[1]].position,
                                                   ilots[p[2]].position)]
             RECURSIVE Total(_)
             Total(ps) == IF ps = {} THEN 0
                          ELSE LET q == CHOOSE q \in ps : TRUE
                               IN  dists[q] + Total(ps \ {q})
         IN  (3 * Total(pairs)) \div Cardinality(pairs)

\* getDistanceToLineSegment
getDistanceToLineSegment(point, lineStart, lineEnd) ==
    LET A == point.x - lineStart.x
        B == point.y - lineStart.y
        C == lineEnd.x - lineStart.x
        D == lineEnd.y - lineStart.y
        dot == A * C + B * D
        lenSq == C * C + D * D
    IN  IF lenSq = 0 THEN getDistance(point, lineStart)
        ELSE LET tNum == Max(0, Min(lenSq, dot))   \* t = tNum / lenSq
                 projection == Pt(lineStart.x + (tNum * C) \div lenSq,
                                  lineStart.y + (tNum * D) \div lenSq)
             IN  getDistance(point, projection)

\* getDistanceToPolygon
getDistanceToPolygon(point, polygon) ==
    SeqMin([i \in 1..Len(polygon) |->
              getDistanceToLineSegment(point, polygon[i],
                                       polygon[(i % Len(polygon)) + 1])])

\* calculateConstraintScore * 0.5
ConstraintTerm(fp, ilots) ==
    LET restrictedPenalty(i, r) ==
            LET distance == getDistanceToPolygon(ilots[i].position,
                                                 fp.restrictedAreas[r].boundaries)
            IN  IF distance < 1500 THEN (1500 - distance) * 100 ELSE 0
        entrancePenalty(i, e) ==
            LET distance == getDistance(ilots[i].position, fp.entrances[e].position)
            IN  IF distance < 2500 THEN (2500 - distance) * 150 ELSE 0
        perIlot(i) ==
            SumSeq([r \in 1..Len(fp.restrictedAreas) |-> restrictedPenalty(i, r)])
            + SumSeq([e \in 1..Len(fp.entrances) |-> entrancePenalty(i, e)])
        score == 1000000 - SumSeq([i \in 1..Len(ilots) |-> perIlot(i)])
    IN  Max(0, score) \div 2

\* evaluateLayoutAdvanced (ilots non-empty: on an empty list the code's
\* accessibility score is 0 / 0 = NaN)
evaluateLayoutAdvanced(fp, cfg, ilots) ==
    (1000000 - Abs(calculateUtilization(fp, ilots) - cfg.layoutProfile * 100) * 2 * 100)
    + DistributionTerm(ilots)
    + AccessibilityTerm(fp, ilots)
    + ConstraintTerm(fp, ilots)

-----------------------------------------------------------------------------
(* Math.random(): one draw is a value of RandomDraws, in thousandths *)

RandomDraws == {0, 300, 600, 950}

\* Date.now() / Math.random() part of an id
MaxId == 1
IdPool == 1..MaxId

\* bounds.minX + Math.random() * (bounds.maxX - bounds.minX), same for y
RandomPointIn(bounds, rx, ry) ==
    Pt(bounds.minX + (rx * (bounds.maxX - bounds.minX)) \div 1000,
       bounds.minY + (ry * (bounds.maxY - bounds.minY)) \div 1000)

-----------------------------------------------------------------------------
(* Stage 1: zones and passes *)

\* calculateZoneEfficiency, in thousandths.  A zone whose bounding box has a
\* zero side gives Infinity or NaN in the code; the floor plans have none.
calculateZoneEfficiency(zone) ==
    LET bounds == calculateZoneBounds(zone.boundaries)
        aspectRatio == (Max(bounds.width, bounds.height) * 1000)
                           \div Min(bounds.width, bounds.height)
        compactness == (zone.area * 1000) \div ((bounds.width * bounds.height) \div 1000)
    IN  (compactness * 1000) \div Max(1000, aspectRatio - 1000)

\* Array.prototype.sort with (a, b) => bEfficiency - aEfficiency: stable, descending
RECURSIVE InsertByEfficiency(_, _)
InsertByEfficiency(sorted, zone) ==
    IF sorted = << >> THEN << zone >>
    ELSE IF calculateZoneEfficiency(Head(sorted)) >= calculateZoneEfficiency(zone)
         THEN << Head(sorted) >> \o InsertByEfficiency(Tail(sorted), zone)
         ELSE << zone >> \o sorted

RECURSIVE SortByEfficiency(_, _)
SortByEfficiency(rooms, sorted) ==
    IF rooms = << >> THEN sorted
    ELSE SortByEfficiency(Tail(rooms), InsertByEfficiency(sorted, Head(rooms)))

\* identifyOptimalZones
identifyOptimalZones(fp) ==
    SortByEfficiency(
        SelectSeqBy(fp.rooms, { r \in Range(fp.rooms) : r.type = "available" }),
        << >>)

\* placeIlotsInZoneAdvanced: adaptiveSpacing
adaptiveSpacing(cfg) ==
    LET baseSpacing == IF cfg.layoutProfile > 30 THEN 1000 ELSE 1500
    IN  Max(500, baseSpacing - cfg.layoutProfile * 10)

\* hexagonalGridPlacement: hexSpacing = spacing * 0.866
hexSpacing(cfg) == (adaptiveSpacing(cfg) * 866) \div 1000

\* hexagonalGridPlacement: first x of a row, offsetX = (row % 2) * (spacing / 2)
HexRowStart(cfg, bounds, row) ==
    bounds.minX + 1000 + (row % 2) * (adaptiveSpacing(cfg) \div 2)

\* first element of a sequence that satisfies a test, << >> when none (Array.find)
RECURSIVE FindFirst(_, _)
FindFirst(s, ok) ==
    IF s = << >> THEN << >>
    ELSE IF Head(s) \in ok THEN << Head(s) >> ELSE FindFirst(Tail(s), ok)

\* the sizes of `sizes` that canPlaceIlotAt accepts at `position`
Placeable(fp, g, cfg, position, sizes, existingIlots) ==
    { s \in Range(sizes) : canPlaceIlotAt(fp, g, cfg, position, s.size, existingIlots) }

-----------------------------------------------------------------------------
(* Stage 2: mutation *)

\* mutateLayout, one iteration of its loop: ilot `index` is offset by
\* ((Math.random() - 0.5) * 2) on each axis and kept if isValidPosition
MutateOnce(fp, g, cfg, mutated, index, rx, ry) ==
    LET ilot == mutated[index]
        newPosition == Pt(ilot.position.x + (rx - 500) * 2,
                          ilot.position.y + (ry - 500) * 2)
    IN  IF isValidPosition(fp, g, cfg, newPosition, ilot, Without(mutated, index))
        THEN [mutated EXCEPT ![index] = [ilot EXCEPT !.position = newPosition]]
        ELSE mutated

\* mutateLayout: every layout that mutationCount iterations can produce;
\* index = Math.floor(Math.random() * mutated.length)
RECURSIVE MutateTimes(_, _, _, _, _)
MutateTimes(fp, g, cfg, layouts, count) ==
    IF count = 0 THEN layouts
    ELSE MutateTimes(fp, g, cfg,
            { MutateOnce(fp, g, cfg, l, (t[1] * Len(l)) \div 1000 + 1, t[2], t[3]) :
                l \in layouts, t \in RandomDraws \X RandomDraws \X RandomDraws },
            count - 1)

mutateLayout(fp, g, cfg, layout) ==
    MutateTimes(fp, g, cfg, {layout}, Max(1, (Len(layout) * 10) \div 100))

-----------------------------------------------------------------------------
(* Stage 3: densification *)

microSizes == << 1000, 800, 600, 400 >>

\* fillRemainingSpaces, the body of the two loops at one scan position;
\* st = [grid, fillIlots]
FillAt(fp, cfg, st, position) ==
    IF ~isGridPositionAvailable(fp, st.grid, position) THEN st
    ELSE LET fits == FindFirst(microSizes,
                        { size \in Range(microSizes) :
                            canPlaceIlotAt(fp, st.grid, cfg, position, size, st.fillIlots) })
         IN  IF fits = << >> THEN st
             ELSE LET ilot == createIlot(position,
                                  [size |-> fits[1], type |-> "fill", weight |-> 1], 0)
                  IN  [grid |-> markIlotOnGrid(fp, st.grid, ilot),
                       fillIlots |-> Append(st.fillIlots, ilot)]

\* fillRemainingSpaces: the inner loop over y at one x, step = gridResolution * 2
RECURSIVE FillColumn(_, _, _, _, _)
FillColumn(fp, cfg, st, x, y) ==
    IF y >= fp.bounds.maxY THEN st
    ELSE LET next == FillAt(fp, cfg, st, Pt(x, y))
         IN  IF Len(next.fillIlots) >= 0   \* evaluates next before the next iteration
             THEN FillColumn(fp, cfg, next, x, y + gridResolution * 2)
             ELSE st

\* fillRemainingSpaces: the outer loop over x
RECURSIVE FillFrom(_, _, _, _)
FillFrom(fp, cfg, st, x) ==
    IF x >= fp.bounds.maxX THEN st
    ELSE LET next == FillColumn(fp, cfg, st, x, fp.bounds.minY)
         IN  IF Len(next.fillIlots) >= 0
             THEN FillFrom(fp, cfg, next, x + gridResolution * 2)
             ELSE st

fillRemainingSpaces(fp, g, cfg) ==
    FillFrom(fp, cfg, [grid |-> g, fillIlots |-> << >>], fp.bounds.minX)

\* generateNeighborPositions: 8 directions, cos and sin in thousandths
NeighborCos == << 1000, 707, 0, -707, -1000, -707, 0, 707 >>
NeighborSin == << 0, 707, 1000, 707, 0, -707, -1000, -707 >>

generateNeighborPositions(center, radius) ==
    [i \in 1..8 |-> Pt(center.x + (NeighborCos[i] * radius) \div 1000,
                       center.y + (NeighborSin[i] * radius) \div 1000)]

\* performMicroOptimizations, the body of the for-i loop: the first neighbour
\* that is valid and scores strictly higher replaces ilot i
MicroMove(fp, g, cfg, optimized, i) ==
    LET ilot == optimized[i]
        neighbors == generateNeighborPositions(ilot.position, 200)
        current == evaluateLayoutAdvanced(fp, cfg, optimized)
        moved(k) == [optimized EXCEPT ![i] = [ilot EXCEPT !.position = neighbors[k]]]
        better == { k \in 1..8 :
                      /\ isValidPosition(fp, g, cfg, neighbors[k], ilot, Without(optimized, i))
                      /\ evaluateLayoutAdvanced(fp, cfg, moved(k)) > current }
    IN  IF better = {} THEN optimized
        ELSE moved(CHOOSE k \in better : \A j \in better : k <= j)

RECURSIVE MicroPass(_, _, _, _, _)
MicroPass(fp, g, cfg, optimized, i) ==
    IF i > Len(optimized) THEN optimized
    ELSE MicroPass(fp, g, cfg, MicroMove(fp, g, cfg, optimized, i), i + 1)

MicroIterations == 50

RECURSIVE MicroLoop(_, _, _, _, _)
MicroLoop(fp, g, cfg, optimized, iteration) ==
    IF iteration >= MicroIterations THEN optimized
    ELSE LET next == MicroPass(fp, g, cfg, optimized, 1)
         IN  IF next = optimized THEN optimized   \* !improved
             ELSE MicroLoop(fp, g, cfg, next, iteration + 1)

\* performMicroOptimizations
performMicroOptimizations(fp, g, cfg, ilots) == MicroLoop(fp, g, cfg, ilots, 0)

\* densificationStage: [grid, ilots] when it returns
densificationStage(fp, g, cfg, ilots) ==
    LET marked == markIlotsOnGrid(fp, clearGridOccupancy(g), ilots)
        filled == fillRemainingSpaces(fp, marked, cfg)
    IN  [grid |-> filled.grid,
         ilots |-> performMicroOptimizations(fp, filled.grid, cfg,
                                             ilots \o filled.fillIlots)]

-----------------------------------------------------------------------------
(* IntelligentCorridorGenerator (corridorGenerator.ts).  `corridorWidth` is
   the constructor's argument; `stamp` is the value of Date.now() and
   `token` the Math.random() suffix that go into the corridor ids. *)

CorridorId(kind, ilotId, stamp, token) ==
    [kind |-> kind, ilot |-> ilotId, stamp |-> stamp, token |-> token]

\* findIlotsInSameRow: tolerance = 2.0
findIlotsInSameRow(targetIlot, allIlots, processedIlots) ==
    << targetIlot >> \o
    SelectSeqBy(allIlots,
        { ilot \in Range(allIlots) :
            /\ ilot.id # targetIlot.id
            /\ ilot.id \notin processedIlots
            /\ \/ Abs(ilot.position.y - targetIlot.position.y) < 2000
               \/ Abs(ilot.position.x - targetIlot.position.x) < 2000 })

RECURSIVE GroupFrom(_, _, _, _)
GroupFrom(ilots, i, rows, processedIlots) ==
    IF i > Len(ilots) THEN rows
    ELSE IF ilots[i].id \in processedIlots
         THEN GroupFrom(ilots, i + 1, rows, processedIlots)
         ELSE LET row == findIlotsInSameRow(ilots[i], ilots, processedIlots)
              IN  GroupFrom(ilots, i + 1, Append(rows, row),
                            processedIlots \cup { row[k].id : k \in 1..Len(row) })

\* groupIlotsIntoRows
groupIlotsIntoRows(ilots) == GroupFrom(ilots, 1, << >>, {})

\* calculateAveragePosition, truncated to the millimetre
calculateAveragePosition(ilots) ==
    Pt(SumSeq([i \in 1..Len(ilots) |-> ilots[i].position.x]) \div Len(ilots),
       SumSeq([i \in 1..Len(ilots) |-> ilots[i].position.y]) \div Len(ilots))

\* areRowsFacing: distance > 3.0 && distance < 8.0
areRowsFacing(row1, row2) ==
    LET d2 == DistSq(calculateAveragePosition(row1), calculateAveragePosition(row2))
    IN  d2 > 3000 * 3000 /\ d2 < 8000 * 8000

\* getIlotEdgePoints: Left, Right, Top, Bottom
getIlotEdgePoints(ilot) ==
    LET halfWidth == ilot.width \div 2
        halfHeight == ilot.height \div 2
        center == ilot.position
    IN  << Pt(center.x - halfWidth, center.y), Pt(center.x + halfWidth, center.y),
           Pt(center.x, center.y - halfHeight), Pt(center.x, center.y + halfHeight) >>

RECURSIVE EdgePointsOf(_)
EdgePointsOf(row) ==
    IF row = << >> THEN << >>
    ELSE getIlotEdgePoints(Head(row)) \o EdgePointsOf(Tail(row))

RECURSIVE ClosestFrom(_, _, _, _)
ClosestFrom(points, targetPoint, i, closestPoint) ==
    IF i > Len(points) THEN closestPoint
    ELSE ClosestFrom(points, targetPoint, i + 1,
            IF DistSq(points[i], targetPoint) < DistSq(closestPoint, targetPoint)
            THEN points[i] ELSE closestPoint)

\* findClosestEdgePoint of a non-empty row: the first edge point at the
\* least distance
findClosestEdgePoint(row, targetPoint) ==
    LET points == EdgePointsOf(row)
    IN  ClosestFrom(points, targetPoint, 2, points[1])

\* calculateOptimalCorridorPath: needsIntermediatePoint is false, so the
\* path is [edge1, edge2]
calculateOptimalCorridorPath(row1, row2) ==
    << findClosestEdgePoint(row1, calculateAveragePosition(row2)),
       findClosestEdgePoint(row2, calculateAveragePosition(row1)) >>

\* calculateCorridorBounds
calculateCorridorBounds(path, corridorWidth) ==
    LET halfWidth == corridorWidth \div 2
        xs == [i \in 1..Len(path) |-> path[i].x]
        ys == [i \in 1..Len(path) |-> path[i].y]
    IN  [minX |-> SeqMin(xs) - halfWidth, maxX |-> SeqMax(xs) + halfWidth,
         minY |-> SeqMin(ys) - halfWidth, maxY |-> SeqMax(ys) + halfWidth]

\* getIlotBounds
getIlotBounds(ilot) ==
    [minX |-> ilot.position.x - ilot.width \div 2,
     maxX |-> ilot.position.x + ilot.width \div 2,
     minY |-> ilot.position.y - ilot.height \div 2,
     maxY |-> ilot.position.y + ilot.height \div 2]

\* doBoundsOverlap with touching bounds counted as apart
doBoundsOverlapStrict(bounds1, bounds2) ==
    ~(\/ bounds1.maxX <= bounds2.minX
      \/ bounds2.maxX <= bounds1.minX
      \/ bounds1.maxY <= bounds2.minY
      \/ bounds2.maxY <= bounds1.minY)

\* doBoundsOverlap
doBoundsOverlap(bounds1, bounds2) ==
    ~(\/ bounds1.maxX < bounds2.minX
      \/ bounds2.maxX < bounds1.minX
      \/ bounds1.maxY < bounds2.minY
      \/ bounds2.maxY < bounds1.minY)

\* doesCorridorOverlapIlots
doesCorridorOverlapIlots(path, ilots, corridorWidth) ==
    \E i \in 1..Len(ilots) :
        doBoundsOverlap(calculateCorridorBounds(path, corridorWidth),
                        getIlotBounds(ilots[i]))

\* calculatePathLength
calculatePathLength(path) ==
    SumSeq([i \in 1..(Len(path) - 1) |-> getDistance(path[i], path[i + 1])])

IdsOf(ilots) == [i \in 1..Len(ilots) |-> ilots[i].id]

\* createCorridorBetweenRows: << >> for null, else the one corridor
createCorridorBetweenRows(row1, row2, corridorWidth, stamp, token) ==
    IF ~areRowsFacing(row1, row2) THEN << >>
    ELSE LET path == calculateOptimalCorridorPath(row1, row2)
         IN  IF doesCorridorOverlapIlots(path, row1 \o row2, corridorWidth)
             THEN << >>
             ELSE << [id |-> CorridorId("corridor", 0, stamp, token),
                      path |-> path,
                      width |-> corridorWidth,
                      connectsIlots |-> IdsOf(row1) \o IdsOf(row2),
                      length |-> calculatePathLength(path)] >>

\* generateCorridors: the loop over the pairs i < j of rows
RECURSIVE RowPairCorridors(_, _, _, _, _, _)
RowPairCorridors(ilotRows, i, j, corridorWidth, stamp, token) ==
    IF i > Len(ilotRows) THEN << >>
    ELSE IF j > Len(ilotRows)
         THEN RowPairCorridors(ilotRows, i + 1, i + 2, corridorWidth, stamp, token)
         ELSE createCorridorBetweenRows(ilotRows[i], ilotRows[j], corridorWidth,
                                        stamp, token)
              \o RowPairCorridors(ilotRows, i, j + 1, corridorWidth, stamp, token)

\* calculateIlotsBounds: of the centers
calculateIlotsBounds(ilots) ==
    LET xs == [i \in 1..Len(ilots) |-> ilots[i].position.x]
        ys == [i \in 1..Len(ilots) |-> ilots[i].position.y]
    IN  [minX |-> SeqMin(xs), maxX |-> SeqMax(xs),
         minY |-> SeqMin(ys), maxY |-> SeqMax(ys)]

\* createCirculationSpine: spineWidth = Math.max(corridorWidth, 2.0)
createCirculationSpine(ilots, corridorWidth, stamp) ==
    IF Len(ilots) = 0 THEN << >>
    ELSE LET bounds == calculateIlotsBounds(ilots)
             y == (bounds.minY + bounds.maxY) \div 2
         IN  << [id |-> CorridorId("spine_horizontal", 0, stamp, 0),
                 path |-> << Pt(bounds.minX - 1000, y), Pt(bounds.maxX + 1000, y) >>,
                 width |-> Max(corridorWidth, 2000),
                 connectsIlots |-> IdsOf(ilots),
                 length |-> bounds.maxX - bounds.minX + 2000] >>

\* findNearestSpinePoint: 2m from the ilot
findNearestSpinePoint(ilot) ==
    Pt(ilot.position.x, calculateIlotsBounds(<< ilot >>).minY - 2000)

\* createAccessCorridorForIlot
createAccessCorridorForIlot(ilot, corridorWidth, stamp) ==
    LET nearestSpinePoint == findNearestSpinePoint(ilot)
    IN  [id |-> CorridorId("access", ilot.id, stamp, 0),
         path |-> << ilot.position, nearestSpinePoint >>,
         width |-> corridorWidth,
         connectsIlots |-> << ilot.id >>,
         length |-> getDistance(ilot.position, nearestSpinePoint)]

\* createAccessCorridors: isIlotConnectedToMainCirculation is false for every ilot
createAccessCorridors(ilots, corridorWidth, stamp) ==
    [i \in 1..Len(ilots) |-> createAccessCorridorForIlot(ilots[i], corridorWidth, stamp)]

\* generateMainCirculationCorridors
generateMainCirculationCorridors(ilots, corridorWidth, stamp) ==
    createCirculationSpine(ilots, corridorWidth, stamp)
        \o createAccessCorridors(ilots, corridorWidth, stamp)

\* areCorridorsSimilar: tolerance = 0.5
areCorridorsSimilar(corridor1, corridor2) ==
    /\ Len(corridor1.path) = Len(corridor2.path)
    /\ \A i \in 1..Len(corridor1.path) :
          DistSq(corridor1.path[i], corridor2.path[i]) <= 500 * 500

\* removeDuplicateCorridors
RECURSIVE removeDuplicateCorridors(_, _)
removeDuplicateCorridors(list, unique) ==
    IF list = << >> THEN unique
    ELSE removeDuplicateCorridors(Tail(list),
            IF \E u \in 1..Len(unique) : areCorridorsSimilar(Head(list), unique[u])
            THEN unique ELSE Append(unique, Head(list)))

\* mergeAdjacentCorridors: returns its argument
mergeAdjacentCorridors(list) == list

\* validation without the test of the width
PathAndLengthValid(corridor) ==
    Len(corridor.path) >= 2 /\ corridor.length > 0

\* isValidCorridor
isValidCorridor(corridor) ==
    /\ Len(corridor.path) >= 2
    /\ corridor.width > 0
    /\ corridor.length > 0

\* optimizeCorridorNetwork
optimizeCorridorNetwork(list) ==
    LET uniqueCorridors == removeDuplicateCorridors(list, << >>)
        mergedCorridors == mergeAdjacentCorridors(uniqueCorridors)
    IN  SelectSeqBy(mergedCorridors,
                    { c \in Range(mergedCorridors) : isValidCorridor(c) })

\* generateCorridors
generateCorridors(ilots, corridorWidth, stamp, token) ==
    optimizeCorridorNetwork(
        RowPairCorridors(groupIlotsIntoRows(ilots), 1, 2, corridorWidth, stamp, token)
            \o generateMainCirculationCorridors(ilots, corridorWidth, stamp))

-----------------------------------------------------------------------------
(* Inputs: the FloorPlan values and PlacementConfig values of the model *)

Square(x0, y0, x1, y1) == << Pt(x0, y0), Pt(x1, y0), Pt(x1, y1), Pt(x0, y1) >>

Room(id, boundaries, area, type) ==
    [id |-> id, boundaries |-> boundaries, area |-> area, type |-> type]

PlanBounds == [minX |-> 0, maxX |-> 4000, minY |-> 0, maxY |-> 4000]

\* one available room over the whole plan, crossed by an interior wall
PlanWall ==
    [bounds |-> PlanBounds,
     walls |-> << [start |-> Pt(0, 3000), end |-> Pt(4000, 3000)] >>,
     rooms |-> << Room("hall", Square(0, 0, 4000, 4000), 16000, "available") >>,
     restrictedAreas |-> << >>,
     entrances |-> << >>,
     availableArea |-> 16000]

\* an available room in one corner of the plan, a restricted area the size
\* of a column in it, an entrance in the opposite corner
PlanSmall ==
    [bounds |-> PlanBounds,
     walls |-> << >>,
     rooms |-> << Room("shop", Square(0, 0, 2400, 2400), 5760, "available") >>,
     restrictedAreas |-> << [boundaries |-> Square(700, 300, 1100, 700)] >>,
     entrances |-> << [position |-> Pt(4000, 4000)] >>,
     availableArea |-> 5760]

\* no room of type 'available'
PlanNone ==
    [bounds |-> PlanBounds,
     walls |-> << >>,
     rooms |-> << Room("core", Square(0, 0, 4000, 4000), 16000, "restricted") >>,
     restrictedAreas |-> << >>,
     entrances |-> << >>,
     availableArea |-> 16000]

\* an available room that lies wholly inside an entrance clearance circle
PlanBlocked ==
    [bounds |-> PlanBounds,
     walls |-> << >>,
     rooms |-> << Room("lobby", Square(1000, 1000, 3000, 3000), 4000, "available") >>,
     restrictedAreas |-> << >>,
     entrances |-> << [position |-> Pt(2000, 2000)] >>,
     availableArea |-> 4000]

\* a two-metre kiosk: too small for the hexagonal rows, which start one
\* metre inside the zone's bounding box
PlanTiny ==
    [bounds |-> [minX |-> 0, maxX |-> 2000, minY |-> 0, maxY |-> 2000],
     walls |-> << >>,
     rooms |-> << Room("kiosk", Square(0, 0, 2000, 2000), 4000, "available") >>,
     restrictedAreas |-> << >>,
     entrances |-> << >>,
     availableArea |-> 4000]

FloorPlans == { PlanWall, PlanSmall, PlanNone, PlanBlocked }

Config(profile, corridor, spacing, maxSize) ==
    [layoutProfile |-> profile, corridorWidth |-> corridor,
     minIlotSpacing |-> spacing, maxIlotSize |-> maxSize,
     allowWallTouching |-> TRUE, respectEntranceClearance |-> TRUE]

\* the default of FloorPlanProcessor.tsx
DefaultConfig == Config(25, 1200, 1000, 4000)

Configs == { DefaultConfig,
             Config(25, 1200, 0, 4000),      \* minIlotSpacing <= 0
             Config(25, 0, 1000, 500) }      \* corridorWidth <= 0, maxIlotSize < 1.0

\* the (floor plan, configuration) pairs a placer is constructed with
\* the configuration with the two switches of the configuration panel set
WithFlags(cfg, wallTouching, entranceClearance) ==
    [cfg EXCEPT !.allowWallTouching = wallTouching,
                !.respectEntranceClearance = entranceClearance]

Inputs == (FloorPlans \X { DefaultConfig })
            \cup ({ PlanTiny } \X Configs)
            \cup ({ PlanWall, PlanSmall } \X { WithFlags(DefaultConfig, FALSE, FALSE) })

-----------------------------------------------------------------------------
(* State machine of one IntelligentIlotPlacer *)

MaxTriAttempts == 1     \* of the 200 attempts of triangularFillPlacement
MaxOppSamples == 1      \* of the 500 samples of opportunisticPlacement
MaxGenerations == 1     \* of the 100 generations of optimizationStage
MaxCandidates == 1      \* of the 20 candidates of a generation

NoHex == [row |-> 0, x |-> 0, y |-> 0]

HexStart(cfg, zone) ==
    LET bounds == calculateZoneBounds(zone.boundaries)
    IN  [row |-> 0, x |-> HexRowStart(cfg, bounds, 0), y |-> bounds.minY + 1000]

\* new MemStorage(): no floor plan stored, currentFloorPlanId = 1
MemStorage ==
    [floorPlans |-> << >>, currentFloorPlanId |-> 1, issued |-> << >>]

\* a processor on which processFloorPlan has not been called
NoCallback == [supplied |-> FALSE, throwsAt |-> {}]

\* the component as mounted, and a processor not yet called
AppIdle ==
    /\ file = [extension |-> "", seedable |-> FALSE]
    /\ proc = [onProgressUpdate |-> NoCallback, pc |-> "idle", stage |-> 0,
               steps |-> << >>, notified |-> << >>]
    /\ reference = << >>
    /\ ui = [currentStage |-> "empty", floorPlan |-> << >>,
             isProcessing |-> FALSE, pending |-> ""]
    /\ storage = MemStorage

\* new IntelligentIlotPlacer(floorPlan, config)
InitWith(fp, cfg) ==
    /\ floorPlan = fp
    /\ config = cfg
    /\ placementGrid = initializeGrid(fp)
    /\ pc = "constructed"
    /\ zones = << >>
    /\ zoneIdx = 0
    /\ hexPos = NoHex
    /\ attempt = 0
    /\ generation = 0
    /\ stageIlots = << >>
    /\ zoneIlots = << >>
    /\ bestLayout = << >>
    /\ baseLayout = << >>
    /\ result = << >>
    /\ firstRun = << >>
    /\ corridors = << >>
    /\ AppIdle

Init == \E input \in Inputs : InitWith(input[1], input[2])

ilotSizes == generateDynamicIlotSizes(config)
zone == zones[zoneIdx]
zoneBounds == calculateZoneBounds(zone.boundaries)

\* placeIlots is called; primaryPlacementStage starts with the first zone
PlaceIlots ==
    /\ pc = "constructed"
    /\ LET availableZones == identifyOptimalZones(floorPlan)
       IN  /\ zones' = availableZones
           /\ IF availableZones = << >>
              THEN /\ pc' = "optimization"
                   /\ zoneIdx' = 0
                   /\ hexPos' = NoHex
              ELSE /\ pc' = "hexagonal"
                   /\ zoneIdx' = 1
                   /\ hexPos' = HexStart(config, availableZones[1])
    /\ UNCHANGED << floorPlan, config, placementGrid, attempt, generation, stageIlots,
                    zoneIlots, bestLayout, baseLayout, result, firstRun, corridors >>
    /\ UNCHANGED appVars

\* an ilot is created at `position`, pushed on the zone's list and marked
Place(position, sizeConfig, id) ==
    LET ilot == createIlot(position, sizeConfig, id)
    IN  /\ zoneIlots' = Append(zoneIlots, ilot)
        /\ placementGrid' = markIlotOnGrid(floorPlan, placementGrid, ilot)

Skip == UNCHANGED << zoneIlots, placementGrid >>

\* hexagonalGridPlacement: the body of the inner loop at (x, y), then x += spacing
HexPoint ==
    /\ pc = "hexagonal"
    /\ hexPos.y < zoneBounds.maxY - 1000
    /\ hexPos.x < zoneBounds.maxX - 1000
    /\ LET position == Pt(hexPos.x, hexPos.y)
           suitable == SuitableSizes(floorPlan, placementGrid, config, position, ilotSizes)
       IN  IF \/ ~isPositionInZone(position, zone)
              \/ ~isGridPositionAvailable(floorPlan, placementGrid, position)
              \/ suitable = << >>
           THEN Skip
           ELSE \E r \in RandomDraws, id \in IdPool :
                  LET ilotConfig == WeightedPick(suitable, 1,
                                        (r * TotalWeight(suitable)) \div 1000)
                  IN  IF canPlaceIlotAt(floorPlan, placementGrid, config, position,
                                        ilotConfig.size, zoneIlots)
                      THEN Place(position, ilotConfig, id)
                      ELSE Skip
    /\ hexPos' = [hexPos EXCEPT !.x = hexPos.x + adaptiveSpacing(config)]
    /\ UNCHANGED << floorPlan, config, pc, zones, zoneIdx, attempt, generation,
                    stageIlots, bestLayout, baseLayout, result, firstRun, corridors >>
    /\ UNCHANGED appVars

\* hexagonalGridPlacement: the inner loop ends; row++, y += hexSpacing
HexNextRow ==
    /\ pc = "hexagonal"
    /\ hexPos.y < zoneBounds.maxY - 1000
    /\ hexPos.x >= zoneBounds.maxX - 1000
    /\ hexPos' = [row |-> hexPos.row + 1,
                  x |-> HexRowStart(config, zoneBounds, hexPos.row + 1),
                  y |-> hexPos.y + hexSpacing(config)]
    /\ UNCHANGED << floorPlan, config, placementGrid, pc, zones, zoneIdx, attempt,
                    generation, stageIlots, zoneIlots, bestLayout, baseLayout, result,
                    firstRun, corridors >>
    /\ UNCHANGED appVars

\* hexagonalGridPlacement returns; triangularFillPlacement starts
HexDone ==
    /\ pc = "hexagonal"
    /\ hexPos.y >= zoneBounds.maxY - 1000
    /\ pc' = "triangular"
    /\ attempt' = 0
    /\ hexPos' = NoHex
    /\ UNCHANGED << floorPlan, config, placementGrid, zones, zoneIdx, generation,
                    stageIlots, zoneIlots, bestLayout, baseLayout, result, firstRun, corridors >>
    /\ UNCHANGED appVars

\* findTriangularGap: the positions it can return (null apart): a random
\* point of the zone's bounding box that is in the zone and on a free cell
GapPositions ==
    { p \in { RandomPointIn(zoneBounds, rx, ry) : rx \in RandomDraws, ry \in RandomDraws } :
        isPositionInZone(p, zone) /\ isGridPositionAvailable(floorPlan, placementGrid, p) }

\* triangularFillPlacement: one attempt
TriAttempt ==
    /\ pc = "triangular"
    /\ attempt < MaxTriAttempts
    /\ \/ Skip      \* findTriangularGap returned null
       \/ \E position \in GapPositions, id \in IdPool :
            LET smallSizes == SelectSeqBy(ilotSizes,
                                  { s \in Range(ilotSizes) : s.size <= 2000 })
                suitableSize == FindFirst(smallSizes,
                                  Placeable(floorPlan, placementGrid, config, position,
                                            smallSizes, zoneIlots))
            IN  IF suitableSize # << >> THEN Place(position, suitableSize[1], id)
                ELSE Skip
    /\ attempt' = attempt + 1
    /\ UNCHANGED << floorPlan, config, pc, zones, zoneIdx, hexPos, generation,
                    stageIlots, bestLayout, baseLayout, result, firstRun, corridors >>
    /\ UNCHANGED appVars

\* triangularFillPlacement returns; opportunisticPlacement starts
TriDone ==
    /\ pc = "triangular"
    /\ attempt >= MaxTriAttempts
    /\ pc' = "opportunistic"
    /\ attempt' = 0
    /\ UNCHANGED << floorPlan, config, placementGrid, zones, zoneIdx, hexPos, generation,
                    stageIlots, zoneIlots, bestLayout, baseLayout, result, firstRun, corridors >>
    /\ UNCHANGED appVars

\* opportunisticPlacement: one sample
OppSample ==
    /\ pc = "opportunistic"
    /\ attempt < MaxOppSamples
    /\ \E rx \in RandomDraws, ry \in RandomDraws, ra \in RandomDraws, id \in IdPool :
          LET position == RandomPointIn(zoneBounds, rx, ry)
              suitableSize == FindFirst(ilotSizes,
                                Placeable(floorPlan, placementGrid, config, position,
                                          ilotSizes, zoneIlots))
          IN  IF \/ ~isPositionInZone(position, zone)
                 \/ ~isGridPositionAvailable(floorPlan, placementGrid, position)
              THEN Skip
              ELSE IF suitableSize # << >> /\ ra < suitableSize[1].weight * 10
                   THEN Place(position, suitableSize[1], id)
                   ELSE Skip
    /\ attempt' = attempt + 1
    /\ UNCHANGED << floorPlan, config, pc, zones, zoneIdx, hexPos, generation,
                    stageIlots, bestLayout, baseLayout, result, firstRun, corridors >>
    /\ UNCHANGED appVars

\* placeIlotsInZoneAdvanced returns: the zone's ilots are pushed on
\* placedIlots and marked; the next zone starts, or the stage returns
ZoneDone ==
    /\ pc = "opportunistic"
    /\ attempt >= MaxOppSamples
    /\ stageIlots' = stageIlots \o zoneIlots
    /\ placementGrid' = markIlotsOnGrid(floorPlan, placementGrid, zoneIlots)
    /\ zoneIlots' = << >>
    /\ attempt' = 0
    /\ IF zoneIdx < Len(zones)
       THEN /\ zoneIdx' = zoneIdx + 1
            /\ hexPos' = HexStart(config, zones[zoneIdx + 1])
            /\ pc' = "hexagonal"
       ELSE /\ pc' = "optimization"
            /\ UNCHANGED << zoneIdx, hexPos >>
    /\ UNCHANGED << floorPlan, config, zones, generation, bestLayout, baseLayout,
                    result, firstRun, corridors >>
    /\ UNCHANGED appVars

\* optimizationStage is entered.  On an empty list the first call of
\* mutateLayout reads mutated[0].position of an empty array: a TypeError
\* that nothing in placeIlots catches.
OptimizationStart ==
    /\ pc = "optimization"
    /\ IF stageIlots = << >>
       THEN /\ pc' = "threw"
            /\ UNCHANGED << bestLayout, baseLayout >>
       ELSE /\ pc' = "generation"
            /\ bestLayout' = stageIlots
            /\ baseLayout' = stageIlots
    /\ generation' = 0
    /\ attempt' = 0
    /\ UNCHANGED << floorPlan, config, placementGrid, zones, zoneIdx, hexPos,
                    stageIlots, zoneIlots, result, firstRun, corridors >>
    /\ UNCHANGED appVars

\* Candidate as it would be with bestLayout = candidate outside the if
CandidateAlways ==
    /\ pc = "generation"
    /\ generation < MaxGenerations
    /\ attempt < MaxCandidates
    /\ bestLayout' \in mutateLayout(floorPlan, placementGrid, config, baseLayout)
    /\ attempt' = attempt + 1
    /\ UNCHANGED << floorPlan, config, placementGrid, pc, zones, zoneIdx, hexPos,
                    generation, stageIlots, zoneIlots, baseLayout, result, firstRun, corridors >>
    /\ UNCHANGED appVars

\* optimizationStage: one candidate of generateLayoutCandidates(bestLayout)
\* is scored; it replaces bestLayout when it scores strictly higher
Candidate ==
    /\ pc = "generation"
    /\ generation < MaxGenerations
    /\ attempt < MaxCandidates
    /\ \E candidate \in mutateLayout(floorPlan, placementGrid, config, baseLayout) :
          bestLayout' =
             IF evaluateLayoutAdvanced(floorPlan, config, candidate)
                  > evaluateLayoutAdvanced(floorPlan, config, bestLayout)
             THEN candidate ELSE bestLayout
    /\ attempt' = attempt + 1
    /\ UNCHANGED << floorPlan, config, placementGrid, pc, zones, zoneIdx, hexPos,
                    generation, stageIlots, zoneIlots, baseLayout, result, firstRun, corridors >>
    /\ UNCHANGED appVars

\* optimizationStage: the candidates of a generation are used up
GenerationDone ==
    /\ pc = "generation"
    /\ generation < MaxGenerations
    /\ attempt >= MaxCandidates
    /\ generation' = generation + 1
    /\ attempt' = 0
    /\ baseLayout' = bestLayout
    /\ UNCHANGED << floorPlan, config, placementGrid, pc, zones, zoneIdx, hexPos,
                    stageIlots, zoneIlots, bestLayout, result, firstRun, corridors >>
    /\ UNCHANGED appVars

\* optimizationStage returns bestLayout; densificationStage runs and
\* placeIlots returns its list.  The fill ilots get their ids.
Densification ==
    /\ pc = "generation"
    /\ generation >= MaxGenerations
    /\ LET d == densificationStage(floorPlan, placementGrid, config, bestLayout)
           kept == Len(bestLayout)
       IN  /\ placementGrid' = d.grid
           /\ \E ids \in [(kept + 1)..Len(d.ilots) -> IdPool] :
                result' = [i \in 1..Len(d.ilots) |->
                             IF i <= kept THEN d.ilots[i]
                             ELSE [d.ilots[i] EXCEPT !.id = ids[i]]]
    /\ pc' = "returned"
    /\ UNCHANGED << floorPlan, config, zones, zoneIdx, hexPos, attempt, generation,
                    stageIlots, zoneIlots, bestLayout, baseLayout, firstRun, corridors >>
    /\ UNCHANGED appVars

\* processFloorPlan, stage 5: new IntelligentCorridorGenerator(plan,
\* config.corridorWidth).generateCorridors(placedIlots)
\* generateCorridors as it would be if it walked the list with the in-place
\* Array.prototype.reverse
GenerateCorridorsReversing ==
    /\ pc = "returned"
    /\ result' = [i \in 1..Len(result) |-> result[Len(result) + 1 - i]]
    /\ \E stamp \in IdPool, token \in IdPool :
          corridors' = generateCorridors(result', config.corridorWidth, stamp, token)
    /\ pc' = "corridors"
    /\ UNCHANGED << floorPlan, config, placementGrid, zones, zoneIdx, hexPos, attempt,
                    generation, stageIlots, zoneIlots, bestLayout, baseLayout,
                    firstRun >>
    /\ UNCHANGED appVars

GenerateCorridors ==
    /\ pc = "returned"
    /\ \E stamp \in IdPool, token \in IdPool :
          corridors' = generateCorridors(result, config.corridorWidth, stamp, token)
    /\ pc' = "corridors"
    /\ UNCHANGED << floorPlan, config, placementGrid, zones, zoneIdx, hexPos, attempt,
                    generation, stageIlots, zoneIlots, bestLayout, baseLayout, result,
                    firstRun >>
    /\ UNCHANGED appVars

Next ==
    \/ PlaceIlots
    \/ HexPoint
    \/ HexNextRow
    \/ HexDone
    \/ TriAttempt
    \/ TriDone
    \/ OppSample
    \/ ZoneDone
    \/ OptimizationStart
    \/ Candidate
    \/ GenerationDone
    \/ Densification
    \/ GenerateCorridors

Spec == Init /\ [][Next]_vars

-----------------------------------------------------------------------------
(* Two runs of the pipeline on the same input, one after the other *)

\* the first run is over: its outcome is kept and a new placer is
\* constructed on the same floor plan and configuration
Rerun ==
    /\ pc = "corridors"
    /\ firstRun = << >>
    /\ firstRun' = << [ilots |-> result, corridors |-> corridors] >>
    /\ placementGrid' = initializeGrid(floorPlan)
    /\ pc' = "constructed"
    /\ zones' = << >>
    /\ zoneIdx' = 0
    /\ hexPos' = NoHex
    /\ attempt' = 0
    /\ generation' = 0
    /\ stageIlots' = << >>
    /\ zoneIlots' = << >>
    /\ bestLayout' = << >>
    /\ baseLayout' = << >>
    /\ result' = << >>
    /\ corridors' = << >>
    /\ UNCHANGED << floorPlan, config >>
    /\ UNCHANGED appVars

InitTwin == InitWith(PlanSmall, DefaultConfig)

NextTwin == Next \/ Rerun

SpecTwin == InitTwin /\ [][NextTwin]_vars

-----------------------------------------------------------------------------
(* The ids the earlier placer gives its ilots: placeIlotsInZone numbers the
   ilots of each zone from 1, and placeIlots concatenates the zones' lists *)

\* placeIlotsInZone: `ilot_${placedIlots.length + 1}` for the ilots of a zone
ZoneIlotIds(count) == [k \in 1..count |-> k]

\* placeIlots: placedIlots.push(...zoneIlots) for every zone in turn
RECURSIVE PlacedIlotIds(_)
PlacedIlotIds(zoneCounts) ==
    IF zoneCounts = << >> THEN << >>
    ELSE ZoneIlotIds(Head(zoneCounts)) \o PlacedIlotIds(Tail(zoneCounts))

-----------------------------------------------------------------------------
(* The corridor generator on its own: generateCorridors on an ilot list and
   a corridor width that need not come from a placement run *)

MaxIlots == 2

\* centres 1, 2.83, 5 and 8 m apart: one row, and two rows below, inside and
\* at the far end of the facing band
CorridorPoints ==
    { Pt(0, 0), Pt(1000, 0), Pt(2000, 2000), Pt(4000, 3000), Pt(4800, 6400) }

CorridorWidths == { -1000, 0, 1200, 2400 }

IlotChoices ==
    { createIlot(p, generateDynamicIlotSizes(DefaultConfig)[tier], id) :
        p \in CorridorPoints, tier \in { 1, 3 }, id \in 1..MaxIlots }

IlotLists == UNION { [1..n -> IlotChoices] : n \in 0..MaxIlots }

InitCorr ==
    /\ floorPlan = PlanTiny
    /\ config \in { Config(25, w, 1000, 4000) : w \in CorridorWidths }
    /\ placementGrid = initializeGrid(PlanTiny)
    /\ pc = "returned"
    /\ zones = << >>
    /\ zoneIdx = 0
    /\ hexPos = NoHex
    /\ attempt = 0
    /\ generation = 0
    /\ stageIlots = << >>
    /\ zoneIlots = << >>
    /\ bestLayout = << >>
    /\ baseLayout = << >>
    /\ result \in IlotLists
    /\ firstRun = << >>
    /\ corridors = << >>
    /\ AppIdle

NextCorr == GenerateCorridors

SpecCorr == InitCorr /\ [][NextCorr]_vars

-----------------------------------------------------------------------------
(* The processing pipeline (AdvancedFloorPlanProcessor.processFloorPlan) and
   the workflow of the FloorPlanProcessor component *)

\* the stage names processFloorPlan reports, in order
ProgressStages ==
    << "parsing", "analyzing", "transforming", "placing", "corridors", "complete" >>

\* the call processFloorPlan makes after each report
StageCalls ==
    << "parseCADFile", "transformToArchitecturalPlan", "optimizeFloorPlan",
       "placeIlots", "generateCorridors", "generateAnalysisSuggestions" >>

\* files by extension; seedable: the parsed plan has a zone in which
\* primary placement places an ilot
Files ==
    { [extension |-> "dxf", seedable |-> TRUE],
      [extension |-> "dxf", seedable |-> FALSE],
      [extension |-> "pdf", seedable |-> TRUE],
      [extension |-> "dwg", seedable |-> TRUE],
      [extension |-> "txt", seedable |-> TRUE] }

MaxThrowingStages == 1

\* the progress callbacks: none, or a function that throws on the reports of
\* some stages and returns on the others
Callbacks ==
    { NoCallback } \cup
    { [supplied |-> TRUE, throwsAt |-> S] :
        S \in { T \in SUBSET Range(ProgressStages) :
                    Cardinality(T) <= MaxThrowingStages } }

\* parseCADFile throws on a dwg file and on an unknown extension; placeIlots
\* throws when primary placement placed no ilot (OptimizationStart)
StageThrows(stage, f) ==
    \/ stage = 1 /\ f.extension \notin { "dxf", "pdf" }
    \/ stage = 4 /\ ~f.seedable

StartedWith(callback) ==
    [onProgressUpdate |-> callback, pc |-> "notify", stage |-> 1,
     steps |-> << >>, notified |-> << >>]

\* new AdvancedFloorPlanProcessor().processFloorPlan(file, config)
processFloorPlan ==
    /\ proc.pc = "idle"
    /\ file' \in Files
    /\ proc' = StartedWith(NoCallback)
    /\ UNCHANGED << reference, ui >>
    /\ UNCHANGED << placeVars, storage >>

\* updateProgress(stage, progress, message); an exception of the callback is
\* caught by processFloorPlan and rethrown
updateProgress ==
    /\ proc.pc = "notify"
    /\ LET stage == ProgressStages[proc.stage]
       IN  IF ~proc.onProgressUpdate.supplied
           THEN proc' = [proc EXCEPT !.pc = "work"]
           ELSE proc' = [proc EXCEPT
                    !.notified = Append(@, stage),
                    !.pc = IF stage \in proc.onProgressUpdate.throwsAt
                           THEN "rejected" ELSE "work"]
    /\ UNCHANGED << file, reference, ui >>
    /\ UNCHANGED << placeVars, storage >>

\* the call of one stage; the return after the last one
RunStage ==
    /\ proc.pc = "work"
    /\ LET threw == StageThrows(proc.stage, file)
       IN  proc' = [proc EXCEPT
                !.steps = Append(@, [call |-> StageCalls[proc.stage], threw |-> threw]),
                !.stage = IF threw \/ proc.stage = Len(StageCalls) THEN @ ELSE @ + 1,
                !.pc = IF threw THEN "rejected"
                       ELSE IF proc.stage = Len(StageCalls) THEN "resolved"
                       ELSE "notify"]
    /\ UNCHANGED << file, reference, ui >>
    /\ UNCHANGED << placeVars, storage >>

\* new AdvancedFloorPlanProcessor(callback).processFloorPlan(file, config) on
\* the file of the finished call
ProcessAgain ==
    /\ proc.pc \in { "resolved", "rejected" }
    /\ reference = << >>
    /\ reference' = << [steps |-> proc.steps, outcome |-> proc.pc] >>
    /\ \E callback \in Callbacks : proc' = StartedWith(callback)
    /\ UNCHANGED << file, ui >>
    /\ UNCHANGED << placeVars, storage >>

MaxPlaced == 2

getStageStatus(stage) ==
    IF stage = "parse" /\ ui.floorPlan # << >> THEN "complete"
    ELSE IF stage = "process" /\ ui.currentStage = "processed" THEN "complete"
    ELSE IF stage = "process" /\ ui.currentStage = "parsed" THEN "active"
    ELSE IF stage = "place" /\ ui.currentStage = "placed" THEN "complete"
    ELSE IF stage = "place" /\ ui.currentStage = "processed" THEN "active"
    ELSE IF stage = "corridors" /\ ui.currentStage = "corridors" THEN "complete"
    ELSE IF stage = "corridors" /\ ui.currentStage = "placed" THEN "active"
    ELSE "pending"

\* handleFileUpload up to its await; the file input is disabled while
\* isProcessing
handleFileUpload ==
    /\ ~ui.isProcessing
    /\ ui' = [ui EXCEPT !.isProcessing = TRUE, !.pending = "upload"]
    /\ UNCHANGED << file, proc, reference >>
    /\ UNCHANGED << placeVars, storage >>

\* handleFileUpload after parseFloorPlanOnly settled: the parsed plan has no
\* ilots; a rejection leaves the plan and the stage as they were
FileUploadSettled ==
    /\ ui.pending = "upload"
    /\ \/ ui' = [ui EXCEPT
                    !.floorPlan = << [ilots |-> 0, hasCorridors |-> FALSE,
                                      processed |-> FALSE] >>,
                    !.currentStage = "parsed",
                    !.isProcessing = FALSE, !.pending = ""]
       \/ ui' = [ui EXCEPT !.isProcessing = FALSE, !.pending = ""]
    /\ UNCHANGED << file, proc, reference >>
    /\ UNCHANGED << placeVars, storage >>

\* handleProcessPlan up to its first await; its button is rendered while the
\* 'process' step is active and is disabled while isProcessing
handleProcessPlan ==
    /\ getStageStatus("process") = "active"
    /\ ~ui.isProcessing
    /\ ui.floorPlan # << >>
    /\ ui' = [ui EXCEPT !.isProcessing = TRUE, !.pending = "process"]
    /\ UNCHANGED << file, proc, reference >>
    /\ UNCHANGED << placeVars, storage >>

\* handleProcessPlan after its timers
ProcessPlanSettled ==
    /\ ui.pending = "process"
    /\ ui' = [ui EXCEPT
                !.floorPlan = IF @ = << >> THEN @
                              ELSE << [@[1] EXCEPT !.processed = TRUE] >>,
                !.currentStage = "processed",
                !.isProcessing = FALSE, !.pending = ""]
    /\ UNCHANGED << file, proc, reference >>
    /\ UNCHANGED << placeVars, storage >>

\* handlePlaceIlots: placeIlots returns some ilots, or throws and the
\* handler reports the failure
handlePlaceIlots ==
    /\ getStageStatus("place") = "active"
    /\ ~ui.isProcessing
    /\ ui.floorPlan # << >>
    /\ \/ \E placedIlots \in 0..MaxPlaced :
            ui' = [ui EXCEPT
                    !.floorPlan = << [@[1] EXCEPT !.ilots = placedIlots] >>,
                    !.currentStage = "placed"]
       \/ UNCHANGED ui
    /\ UNCHANGED << file, proc, reference >>
    /\ UNCHANGED << placeVars, storage >>

\* handleGenerateCorridors as it would be with a guard on the plan alone
handleGenerateCorridorsUnguarded ==
    /\ getStageStatus("corridors") = "active"
    /\ ~ui.isProcessing
    /\ IF ui.floorPlan = << >>
       THEN UNCHANGED ui
       ELSE ui' = [ui EXCEPT
                    !.floorPlan = << [@[1] EXCEPT !.hasCorridors = TRUE] >>,
                    !.currentStage = "corridors"]
    /\ UNCHANGED << file, proc, reference >>
    /\ UNCHANGED << placeVars, storage >>

\* handleGenerateCorridors; its button is rendered while the 'corridors' step
\* is active and is disabled while isProcessing
handleGenerateCorridors ==
    /\ getStageStatus("corridors") = "active"
    /\ ~ui.isProcessing
    /\ IF ui.floorPlan = << >> \/ ui.floorPlan[1].ilots = 0
       THEN UNCHANGED ui
       ELSE ui' = [ui EXCEPT
                    !.floorPlan = << [@[1] EXCEPT !.hasCorridors = TRUE] >>,
                    !.currentStage = "corridors"]
    /\ UNCHANGED << file, proc, reference >>
    /\ UNCHANGED << placeVars, storage >>

handleReset ==
    /\ ~ui.isProcessing
    /\ ui' = [ui EXCEPT !.floorPlan = << >>, !.currentStage = "empty"]
    /\ UNCHANGED << file, proc, reference >>
    /\ UNCHANGED << placeVars, storage >>

InitApp == InitWith(PlanTiny, DefaultConfig)

NextApp ==
    \/ processFloorPlan
    \/ updateProgress
    \/ RunStage
    \/ ProcessAgain
    \/ handleFileUpload
    \/ FileUploadSettled
    \/ handleProcessPlan
    \/ ProcessPlanSettled
    \/ handlePlaceIlots
    \/ handleGenerateCorridors
    \/ handleReset

SpecApp == InitApp /\ [][NextApp]_vars

-----------------------------------------------------------------------------
(* The server's floor plan storage (MemStorage) behind the floor plan routes *)

MaxStoredPlans == 2     \* createFloorPlan calls of a run

\* the ids a request names: those createFloorPlan hands out
StoreKeys == 1..MaxStoredPlans

\* new Date()
Times == { 1, 2 }

PlanNames == { "a", "b" }

\* a request body that passed insertFloorPlanSchema
InsertPayloads == { [name |-> n] : n \in PlanNames }

\* the body of a PUT request, handed to updateFloorPlan as it came: any of
\* the fields of a stored plan may be in it
UpdatePayloads ==
    { [name |-> n] : n \in PlanNames }
        \cup { [id |-> i] : i \in { 2, 9 } }
        \cup { [id |-> i, name |-> n] : i \in { 2, 9 }, n \in PlanNames }

\* { ...a, ...b }
Spread(a, b) ==
    [f \in DOMAIN a \cup DOMAIN b |-> IF f \in DOMAIN b THEN b[f] ELSE a[f]]

\* Map.set
MapSet(map, key, value) ==
    [k \in DOMAIN map \cup { key } |-> IF k = key THEN value ELSE map[k]]

\* Map.delete
MapDelete(map, key) ==
    [k \in DOMAIN map \ { key } |-> map[k]]

createFloorPlan ==
    /\ storage.currentFloorPlanId <= MaxStoredPlans
    /\ \E insertFloorPlan \in InsertPayloads, now \in Times :
          LET id == storage.currentFloorPlanId
              plan == Spread(insertFloorPlan,
                             [id |-> id, createdAt |-> now, updatedAt |-> now])
          IN  storage' = [floorPlans |-> MapSet(storage.floorPlans, id, plan),
                          currentFloorPlanId |-> id + 1,
                          issued |-> Append(storage.issued, id)]
    /\ UNCHANGED << placeVars, file, proc, reference, ui >>

\* PUT /api/floorplan/:id with the request body as the update
updateFloorPlan ==
    /\ \E id \in StoreKeys, payload \in UpdatePayloads, now \in Times :
          IF id \notin DOMAIN storage.floorPlans
          THEN UNCHANGED storage
          ELSE LET existing == storage.floorPlans[id]
                   updated == Spread(Spread(existing, payload), [updatedAt |-> now])
               IN  storage' = [storage EXCEPT
                                  !.floorPlans = MapSet(storage.floorPlans, id, updated)]
    /\ UNCHANGED << placeVars, file, proc, reference, ui >>

deleteFloorPlan ==
    /\ \E id \in StoreKeys :
          storage' = [storage EXCEPT !.floorPlans = MapDelete(storage.floorPlans, id)]
    /\ UNCHANGED << placeVars, file, proc, reference, ui >>

InitStore == InitWith(PlanTiny, DefaultConfig)

NextStore ==
    \/ createFloorPlan
    \/ updateFloorPlan
    \/ deleteFloorPlan

SpecStore == InitStore /\ [][NextStore]_vars

-----------------------------------------------------------------------------
(* The claims *)

\* placeIlots has returned its list
Returned == pc \in { "returned", "corridors" }

\* center distance >= minIlotSpacing + the two half-extents, on doubled lengths
SpacingKept(a, b) ==
    LET needed2 == Max(a.width, a.height) + Max(b.width, b.height)
                       + 2 * config.minIlotSpacing
    IN  needed2 <= 0 \/ 4 * DistSq(a.position, b.position) >= needed2 * needed2

\* C1: every two distinct ilots of the list placeIlots returns, whatever zone
\* or stage placed them, have their centers at least minIlotSpacing plus the
\* sum of their half-extents apart
C1_PairwiseSpacing ==
    Returned =>
        \A i, j \in 1..Len(result) :
            i < j => SpacingKept(result[i], result[j])

\* C2: every ilot of the list placeIlots returns has its center inside the
\* polygon of some room of type 'available'
C2_CentersInAvailableRooms ==
    Returned =>
        \A i \in 1..Len(result) :
            \E r \in 1..Len(floorPlan.rooms) :
                /\ floorPlan.rooms[r].type = "available"
                /\ isPointInPolygon(result[i].position, floorPlan.rooms[r].boundaries)

\* the point is less than 0.3 from the wall, measured across it, and beside
\* the wall, measured along it
InWallBand(point, wall) ==
    LET A == point.x - wall.start.x
        B == point.y - wall.start.y
        C == wall.end.x - wall.start.x
        D == wall.end.y - wall.start.y
    IN  /\ Abs(A * D - B * C) < WallBuffer * Sqrt(C * C + D * D)
        /\ A * C + B * D >= 0
        /\ A * C + B * D <= C * C + D * D

\* the point lies in a restricted-area polygon, in the 0.3 band of a wall or
\* in the 2.5 circle of an entrance
InClearance(fp, point) ==
    \/ \E a \in 1..Len(fp.restrictedAreas) :
          isPointInPolygon(point, fp.restrictedAreas[a].boundaries)
    \/ \E w \in 1..Len(fp.walls) : InWallBand(point, fp.walls[w])
    \/ \E e \in 1..Len(fp.entrances) :
          DistSq(point, fp.entrances[e].position) < EntranceClearance * EntranceClearance

\* C3: every ilot of the list placeIlots returns has its center outside
\* every restricted-area polygon, every wall band and every entrance circle
C3_CentersOutsideClearance ==
    Returned =>
        \A i \in 1..Len(result) : ~InClearance(floorPlan, result[i].position)

\* C4: every grid cell holds 0, -1 or 1, and a cell that grid construction
\* marked -1 holds -1 in every later state of the run
C4_RestrictedCellsStay ==
    LET initial == initializeGrid(floorPlan)
    IN  \A y \in DOMAIN placementGrid : \A x \in DOMAIN placementGrid[y] :
            /\ placementGrid[y][x] \in { 0, -1, 1 }
            /\ initial[y][x] = -1 => placementGrid[y][x] = -1

\* points one millimetre and one cell outside each side of the bounds
OutsidePoints(fp) ==
    LET b == fp.bounds
        xs == { b.minX + 1, (b.minX + b.maxX) \div 2 }
        ys == { b.minY + 1, (b.minY + b.maxY) \div 2 }
    IN  { Pt(x, y) : x \in { b.minX - 1, b.minX - gridResolution }, y \in ys }
        \cup { Pt(x, y) : x \in { b.maxX, b.maxX + gridResolution }, y \in ys }
        \cup { Pt(x, y) : x \in xs, y \in { b.minY - 1, b.minY - gridResolution } }
        \cup { Pt(x, y) : x \in xs, y \in { b.maxY, b.maxY + gridResolution } }

\* C5: isGridPositionAvailable is false for every point outside the bounds of
\* the floor plan, on each of the four sides, whatever the border cells hold
C5_OutsideIsUnavailable ==
    \A point \in OutsidePoints(floorPlan) :
        ~isGridPositionAvailable(floorPlan, placementGrid, point)

\* the primary stage has returned, and with no ilot
NoSeed ==
    /\ pc \in { "optimization", "generation", "returned", "corridors", "threw" }
    /\ stageIlots = << >>

\* C6: when no room is available or no zone yields a seed, placeIlots raises
\* no exception and the list it returns is empty
C6_NoSeedReturnsEmpty ==
    NoSeed => /\ pc # "threw"
              /\ Returned => result = << >>

\* the size of the smallest tier of the catalogue
SmallestTier(cfg) ==
    LET sizes == generateDynamicIlotSizes(cfg)
    IN  SeqMin([i \in 1..Len(sizes) |-> sizes[i].size])

InvalidConfig(cfg) ==
    \/ cfg.minIlotSpacing <= 0
    \/ cfg.corridorWidth <= 0
    \/ cfg.maxIlotSize < SmallestTier(cfg)

\* C7: under a configuration with minIlotSpacing <= 0, corridorWidth <= 0 or
\* maxIlotSize below the smallest tier no ilot is placed and no grid cell is
\* marked occupied
C7_InvalidConfigPlacesNothing ==
    InvalidConfig(config) =>
        /\ zoneIlots = << >> /\ stageIlots = << >> /\ result = << >>
        /\ \A y \in DOMAIN placementGrid : \A x \in DOMAIN placementGrid[y] :
               placementGrid[y][x] # 1

\* C8: the second run of placement and corridor generation on the same floor
\* plan and configuration ends with the ilot list (ids, centers, sizes) and
\* the corridor list of the first run
C8_RunsAgree ==
    (pc = "corridors" /\ firstRun # << >>) =>
        /\ firstRun[1].ilots = result
        /\ firstRun[1].corridors = corridors

\* C9: the areas of the returned ilots, summed, divided by availableArea and
\* multiplied by 100, do not exceed 100
C9_UtilizationAtMost100 ==
    Returned =>
        SumSeq([i \in 1..Len(result) |-> result[i].area]) * 100
            <= 100 * floorPlan.availableArea

\* C10: every corridor generateCorridors returns has at least 2 path points,
\* width > 0 and length > 0, whatever the ilot list and the corridor width
C10_CorridorsWellFormed ==
    pc = "corridors" =>
        \A c \in 1..Len(corridors) :
            /\ Len(corridors[c].path) >= 2
            /\ corridors[c].width > 0
            /\ corridors[c].length > 0

\* generateCorridors has returned the spine and dropped the access spurs of
\* a corridor width that is not positive
C10_Witness ==
    /\ pc = "corridors"
    /\ config.corridorWidth <= 0
    /\ Len(result) >= 1
    /\ Len(corridors) = 1
    /\ corridors[1].id.kind = "spine_horizontal"

\* C11: no corridor generateCorridors returns (row-pair, spine or access
\* spur) has a path that, buffered by half its width, intersects the
\* bounding rectangle of an ilot of the input list
C11_CorridorsClearOfIlots ==
    pc = "corridors" =>
        \A c \in 1..Len(corridors) :
            ~doesCorridorOverlapIlots(corridors[c].path, result,
                                      corridors[c].width)

\* the corridors of the returned network that join two rows
RowPairCorridorsOf(list) ==
    SelectSeqBy(list, { c \in Range(list) : c.id.kind = "corridor" })

\* an ilot list that groupIlotsIntoRows splits into two rows of one ilot
\* each whose centres are d mm apart
TwoRowsApart(ilots, d) ==
    /\ Len(ilots) = 2
    /\ ilots[1].id # ilots[2].id
    /\ Len(groupIlotsIntoRows(ilots)) = 2
    /\ DistSq(ilots[1].position, ilots[2].position) = d * d

\* C12: two ilot rows whose average centres are 5 m apart give exactly one
\* row-pair corridor, and its length is 5 m up to the offsets of the two edge
\* points from the centres
C12_FiveApartOneCorridor ==
    (pc = "corridors" /\ TwoRowsApart(result, 5000)) =>
        LET joins == RowPairCorridorsOf(corridors)
            slack == (Max(result[1].width, result[1].height)
                      + Max(result[2].width, result[2].height)) \div 2
        IN  /\ Len(joins) = 1
            /\ Abs(joins[1].length - 5000) <= slack

\* C13: generateCorridors leaves the ilot list it is given unchanged: the
\* same length and order, and every ilot with the same id, position, width,
\* height and area after the call as before it
C13_IlotListUnchanged ==
    [][(pc = "returned" /\ pc' = "corridors") =>
          /\ Len(result') = Len(result)
          /\ \A i \in 1..Len(result) :
                /\ result'[i].id = result[i].id
                /\ result'[i].position = result[i].position
                /\ result'[i].width = result[i].width
                /\ result'[i].height = result[i].height
                /\ result'[i].area = result[i].area]_vars

\* generateCorridors has returned a network for a list of two different
\* ilots
C13_Witness ==
    /\ pc = "corridors"
    /\ Len(result) = 2
    /\ result[1] # result[2]
    /\ Len(corridors) >= 2

\* the processFloorPlan call with a callback has ended, after the call
\* without one on the same file
BothCallsEnded ==
    /\ reference # << >>
    /\ proc.pc \in { "resolved", "rejected" }

\* C14: processFloorPlan makes the same calls in the same order and ends the
\* same way, whether or not a progress callback is supplied and whatever the
\* callback does
C14_CallbackHasNoEffect ==
    BothCallsEnded =>
        /\ proc.steps = reference[1].steps
        /\ proc.pc = reference[1].outcome

\* in processFloorPlan every generateCorridors call comes after a placeIlots
\* call that returned
CorridorsCallAfterPlacement ==
    \A i \in 1..Len(proc.steps) :
        proc.steps[i].call = "generateCorridors" =>
            \E j \in 1..(i - 1) :
                proc.steps[j].call = "placeIlots" /\ ~proc.steps[j].threw

\* C15: corridor generation starts only after placement has finished:
\* processFloorPlan calls generateCorridors after placeIlots has returned, and
\* in the component currentStage becomes 'corridors' only from 'placed' and
\* only when the floor plan holds at least one ilot
C15_CorridorsOnlyAfterPlacement ==
    /\ []CorridorsCallAfterPlacement
    /\ [][(ui'.currentStage = "corridors" /\ ui.currentStage # "corridors") =>
            /\ ui.currentStage = "placed"
            /\ ui.floorPlan # << >>
            /\ ui.floorPlan[1].ilots >= 1]_vars

\* the component has reached 'corridors' with ilots on the plan, and a
\* processFloorPlan call has run all its stages
C15_Witness ==
    /\ ui.currentStage = "corridors"
    /\ ui.floorPlan[1].ilots >= 1
    /\ proc.pc = "resolved"
    /\ \E i \in 1..Len(proc.steps) : proc.steps[i].call = "generateCorridors"

\* C16: every call of placeIlots ends within its fixed budgets (triangular
\* attempts and opportunistic samples per zone, generations of candidates)
\* and ends by returning the best layout found, never by an exception
C16_ReturnsWithinBudgets ==
    /\ pc = "triangular" => attempt <= MaxTriAttempts
    /\ pc = "opportunistic" => attempt <= MaxOppSamples
    /\ generation <= MaxGenerations
    /\ pc # "threw"

\* the centre of a room's bounding box
CenterOf(room) ==
    LET b == calculateZoneBounds(room.boundaries)
    IN  Pt((b.minX + b.maxX) \div 2, (b.minY + b.maxY) \div 2)

\* the rooms the zone selector is to keep: available, 10 m2 or more, centre
\* outside the clearance circle of every entrance
QualifiedRooms(fp) ==
    { r \in Range(fp.rooms) :
        /\ r.type = "available"
        /\ r.area >= 10000
        /\ \A e \in 1..Len(fp.entrances) :
              DistSq(CenterOf(r), fp.entrances[e].position)
                  >= EntranceClearance * EntranceClearance }

\* C17: the zones used for placement are exactly the rooms of type
\* 'available' with area at least 10 whose centre lies outside every entrance
\* clearance zone; primary placement puts no ilot into any other room
C17_ZonesAreQualifiedRooms ==
    pc # "constructed" => Range(zones) = QualifiedRooms(floorPlan)

\* an ilot list with the ids a placer can give: pairwise different ids, or
\* the earlier placer's numbers for some split of the list into zones
PlacementCanProduce(ilots) ==
    \/ \A i, j \in 1..Len(ilots) : i # j => ilots[i].id # ilots[j].id
    \/ \E n \in 0..Len(ilots) : \E zoneCounts \in [1..n -> 1..MaxIlots] :
          IdsOf(ilots) = PlacedIlotIds(zoneCounts)

\* how often an ilot occurs in a list, and in the rows of a grouping
Occurrences(ilot, list) ==
    Cardinality({ i \in 1..Len(list) : list[i] = ilot })

OccurrencesInRows(ilot, rows) ==
    SumSeq([r \in 1..Len(rows) |-> Occurrences(ilot, rows[r])])

\* C18: groupIlotsIntoRows partitions the list it is given: every ilot is in
\* exactly one row and no row is empty, for every list placement can produce
C18_RowsPartitionIlots ==
    (pc = "corridors" /\ PlacementCanProduce(result)) =>
        LET rows == groupIlotsIntoRows(result)
        IN  /\ \A r \in 1..Len(rows) : rows[r] # << >>
            /\ \A i \in 1..Len(result) :
                  OccurrencesInRows(result[i], rows) = Occurrences(result[i], result)

\* the squared distance between the average centres of two rows
RowDistSq(row1, row2) ==
    DistSq(calculateAveragePosition(row1), calculateAveragePosition(row2))

\* C19: a row-pair corridor candidate is computed for a pair of rows exactly
\* when the distance d between their average centres satisfies 3 <= d <= 8,
\* the ends d = 3 and d = 8 included
C19_FacingBandInclusive ==
    pc = "corridors" =>
        LET rows == groupIlotsIntoRows(result)
        IN  \A i, j \in 1..Len(rows) :
                i < j =>
                    (areRowsFacing(rows[i], rows[j])
                        <=> /\ RowDistSq(rows[i], rows[j]) >= 3000 * 3000
                            /\ RowDistSq(rows[i], rows[j]) <= 8000 * 8000)

\* the spine corridors of the returned network
SpinesOf(list) ==
    SelectSeqBy(list, { c \in Range(list) : c.id.kind = "spine_horizontal" })

\* the spine is one horizontal segment, of width max(corridorWidth, 2), that
\* names every ilot
SpineShape(spine) ==
    /\ Len(spine.path) = 2
    /\ spine.path[1].y = spine.path[2].y
    /\ spine.width = Max(config.corridorWidth, 2000)
    /\ \A i \in 1..Len(result) :
          \E k \in 1..Len(spine.connectsIlots) :
              spine.connectsIlots[k] = result[i].id

\* the spine reaches from the left edge of the leftmost ilot to the right
\* edge of the rightmost one, at a height within the ilots' bounding box
SpineSpansIlots(spine) ==
    \A i \in 1..Len(result) :
        LET b == getIlotBounds(result[i])
        IN  /\ spine.path[1].x <= b.minX
            /\ spine.path[2].x >= b.maxX

\* C20: for a non-empty ilot list generateCorridors returns exactly one spine
\* corridor; it is horizontal, spans the bounding box of all ilots, has width
\* max(corridorWidth, 2), and its connectsIlots holds the id of every ilot
C20_OneSpineSpanningIlots ==
    (pc = "corridors" /\ Len(result) >= 1) =>
        LET spines == SpinesOf(corridors)
        IN  /\ Len(spines) = 1
            /\ SpineShape(spines[1])
            /\ SpineSpansIlots(spines[1])

\* the access spurs of the returned network
SpursOf(list) ==
    SelectSeqBy(list, { c \in Range(list) : c.id.kind = "access" })

\* every ilot of the list has an access spur that connects it alone
EveryIlotHasSpur ==
    \A i \in 1..Len(result) :
        \E k \in 1..Len(corridors) :
            /\ corridors[k].id.kind = "access"
            /\ corridors[k].connectsIlots = << result[i].id >>

\* C21: for any ilot list and corridorWidth > 0 the returned
\* network holds, for every ilot, an access spur whose connectsIlots is
\* exactly that ilot's id, also after near-duplicate removal and validation
C21_SpurForEveryIlot ==
    (pc = "corridors" /\ config.corridorWidth > 0) => EveryIlotHasSpur

\* C22: the end point of every access spur lies on the horizontal spine
\* returned for the same ilot list: its y is the spine's y and its x lies
\* within the spine's x extent
C22_SpursEndOnSpine ==
    pc = "corridors" =>
        \A s \in 1..Len(SpinesOf(corridors)) :
            \A a \in 1..Len(SpursOf(corridors)) :
                LET spine == SpinesOf(corridors)[s]
                    spur == SpursOf(corridors)[a]
                    end == spur.path[Len(spur.path)]
                IN  /\ end.y = spine.path[1].y
                    /\ end.x >= spine.path[1].x
                    /\ end.x <= spine.path[2].x

\* C23: at each lattice point of the hexagonal seeding pass the tier that is
\* placed is the largest tier of the six-tier catalogue that is feasible at
\* that point
C23_LargestFeasibleTier ==
    [][(pc = "hexagonal" /\ Len(zoneIlots') = Len(zoneIlots) + 1) =>
          LET placed == zoneIlots'[Len(zoneIlots')]
              feasible == Placeable(floorPlan, placementGrid, config,
                              placed.position,
                              SuitableSizes(floorPlan, placementGrid, config,
                                            placed.position, ilotSizes),
                              zoneIlots)
          IN  \A s \in feasible : s.size <= placed.area]_vars

\* the score of a layout on the plan of the run
ScoreOf(layout) == evaluateLayoutAdvanced(floorPlan, config, layout)

ClearOfOthers(fp, layout, i) ==
    \E e \in 1..Len(fp.entrances) :
        hasLingeringPath(layout[i].position, fp.entrances[e].position,
                         Without(layout, i))

\* C25: in the accessibility score an ilot counts as accessible exactly when,
\* for at least one entrance, no sample point of the straight line from its
\* centre to that entrance falls inside the rectangle of another ilot; the
\* ilot's own rectangle never blocks its own path
C25_OwnRectangleNeverBlocks ==
    pc = "generation" =>
        \A i \in 1..Len(bestLayout) :
            isIlotAccessible(floorPlan, bestLayout[i], bestLayout)
                <=> ClearOfOthers(floorPlan, bestLayout, i)

\* the claim's acceptance test for a candidate ilot: the four corners of its
\* rectangle on free cells, its centre in the zone, and every ilot placed so
\* far farther away than the half-extents plus minIlotSpacing
AcceptableCandidate(candidate, placedSoFar) ==
    /\ \A c \in { Pt(candidate.position.x + sx * (candidate.width \div 2),
                     candidate.position.y + sy * (candidate.height \div 2)) :
                    sx \in { -1, 1 }, sy \in { -1, 1 } } :
          isGridPositionAvailable(floorPlan, placementGrid, c)
    /\ isPositionInZone(candidate.position, zone)
    /\ \A e \in 1..Len(placedSoFar) :
          LET needed2 == Max(candidate.width, candidate.height)
                           + Max(placedSoFar[e].width, placedSoFar[e].height)
                           + 2 * config.minIlotSpacing
          IN  needed2 < 0
              \/ 4 * DistSq(candidate.position, placedSoFar[e].position)
                    > needed2 * needed2

\* C26: a candidate ilot is accepted exactly when the four corners of its
\* bounding rectangle (centre plus or minus half its width and height) lie on
\* free grid cells, its centre is inside the zone polygon, and for every ilot
\* placed so far in the run the centre distance minus the sum of the
\* half-extents exceeds minIlotSpacing
C26_AcceptanceTest ==
    (pc = "hexagonal" /\ hexPos.y < zoneBounds.maxY - 1000
                      /\ hexPos.x < zoneBounds.maxX - 1000) =>
        \A tier \in Range(ilotSizes) :
            LET position == Pt(hexPos.x, hexPos.y)
            IN  (/\ isPositionInZone(position, zone)
                 /\ canPlaceIlotAt(floorPlan, placementGrid, config, position,
                                   tier.size, zoneIlots))
                <=> AcceptableCandidate(createIlot(position, tier, 1),
                                        stageIlots \o zoneIlots)

\* C28: every ilot a run returns has an area of at most config.maxIlotSize,
\* whichever pass created it
C28_AreaWithinMax ==
    Returned => \A i \in 1..Len(result) : result[i].area <= config.maxIlotSize

\* the configurations that differ from cfg in the two flags only
FlagVariants(cfg) ==
    { WithFlags(cfg, w, e) : w \in BOOLEAN, e \in BOOLEAN }

\* the grid with every restricted area, wall buffer and entrance circle marked
FullyMarked(fp) ==
    LET width == CeilDiv(fp.bounds.maxX - fp.bounds.minX, gridResolution)
        height == CeilDiv(fp.bounds.maxY - fp.bounds.minY, gridResolution)
        empty == [y \in 0..(height - 1) |-> [x \in 0..(width - 1) |-> 0]]
    IN  markEntranceBuffers(fp,
            markWallBuffers(fp, markRestrictedAreas(fp, empty, 1), 1), 1)

StartsOnEdgeOf(row, point) ==
    { i \in 1..Len(row) : point \in Range(getIlotEdgePoints(row[i])) }

C30_StoredIdsAreKeys ==
    /\ \A k \in DOMAIN storage.floorPlans : storage.floorPlans[k].id = k
    /\ \A i \in 1..Len(storage.issued), j \in 1..Len(storage.issued) :
           i # j => storage.issued[i] # storage.issued[j]

====
